---- MODULE Spec2Model ----
(***************************************************************************)
(* The system-audio daemon of pluely: SystemAudioState (ring buffer,       *)
(* write_index, logical_len, recording flag, capture_handle), the          *)
(* system_audio_* commands and the macOS fallback capture thread, as       *)
(* described file by file in docs/SYSTEM_AUDIO_DAEMON_HANDOFF.md.          *)
(*                                                                         *)
(* Sizes are scaled down: the program's 9600-sample chunk, 10 chunks per   *)
(* second of stereo audio and 300 seconds of capacity become Chunk,        *)
(* ChunksPerSecond and MAX_BUFFER_SECONDS below.  The ratios the program   *)
(* relies on are kept: capacity is a whole number of seconds, a second is  *)
(* a whole number of chunks.                                               *)
(*                                                                         *)
(* Next to the daemon the module holds the frontend pieces around it, each *)
(* with a specification of its own: floatArrayToWav (SpecWav), the sync of *)
(* systemAudioDaemonConfig to the backend (SpecSync), the attach path of   *)
(* useCompletion (SpecAttach), the buffer-seconds input (SpecSettings),    *)
(* the trigger-screenshot debounce (SpecScreenshot), the global event      *)
(* listeners (SpecListeners), the custom shortcut callbacks                *)
(* (SpecShortcuts) and useWindowResize (SpecResize).                       *)
(***************************************************************************)
EXTENDS Integers, Sequences, FiniteSets, TLC

\* ------------------------------------------------------------------ sizes
\* samples the fallback thread pushes per chunk (program: 9600)
Chunk == 2
\* chunks per second of interleaved audio (program: 48000 * 2 / 9600 = 10)
ChunksPerSecond == 1
\* seconds of physical capacity (program: 300)
MAX_BUFFER_SECONDS == 2
\* seconds new() gives logical_len (program: 30)
DEFAULT_BUFFER_SECONDS == 1
\* chunks the capture threads push before the model stops them
MaxChunks == 2
\* samples beyond one full buffer that the ring-buffer harness pushes
ExtraWrites == 2
\* capture threads ever spawned
MaxWorkers == 2
\* command contexts of the concurrent specification
MaxCmds == 2
\* completed commands remembered
HistLen == 2
\* longest block the ring-buffer harness pushes in one push_samples call
MaxBlock == 3
\* samples handed to floatArrayToWav are the fractions k / SampleDen with
\* |k| <= MaxSampleNum (so 1.5 and -1.5 are among them), at most MaxAudioLen a call
SampleDen == 4
MaxSampleNum == 8
MaxAudioLen == 2
\* the shortest window the settings offer (5 seconds in the program), scaled
MIN_BUFFER_SECONDS == 1
\* changes the user makes to systemAudioDaemonConfig
MaxConfigChanges == 3
\* files a message can carry (the program's MAX_FILES), scaled
MAX_FILES == 2
\* trigger-attach-system-audio events
MaxAttachEvents == 4
\* characters typed into the buffer-seconds input
MaxTextLen == 3
\* the screenshot listener's minimum interval (300 ms in the program), in ticks
DEBOUNCE_MS == 3
\* ticks of the clock after the application has loaded
MaxTicks == 8
\* times the useGlobalShortcuts effect runs (mounts of the hook)
MaxMounts == 2
\* components that use useShortcuts
MaxComponents == 2
\* calls of resizeWindow
MaxResizeCalls == 3

SamplesPerSecond == Chunk * ChunksPerSecond
capacity == MAX_BUFFER_SECONDS * SamplesPerSecond
MaxWrites == capacity + ExtraWrites
MaxWorkerWrites == MaxChunks * Chunk
SecondsArgs == 0 .. (MAX_BUFFER_SECONDS + 1)
Ctx == 1 .. MaxCmds
WorkerIds == 1 .. MaxWorkers
\* capture_handle = None
None == 0

VARIABLES
    macos,          \* cfg!(target_os = "macos")
    buffer,         \* Mutex<Vec<f32>>: 0 .. capacity-1 -> sample
    write_index,    \* Mutex<usize>
    logical_len,    \* Mutex<usize>
    recording,      \* AtomicBool
    capture_handle, \* Mutex<Option<JoinHandle>>: None or a worker id
    workers,        \* capture threads: id -> [pc, i]
    nextWorker,     \* id the next spawned thread gets
    cmd,            \* command contexts: [pc, arg, h, pre]
    totalWritten,   \* samples ever pushed (history: the program keeps no such count)
    lastSnap,       \* the last result of get_recent_base64
    hist,           \* results of the last HistLen completed start/stop commands, oldest first
    encIn,          \* floatArrayToWav's arguments [audioData, sampleRate, format], and the
                    \* channel count the audio was captured with
    encOut,         \* the Blob floatArrayToWav returned, or NoBlob
    appContext,     \* app.context.tsx: systemAudioDaemonConfig and its sync-to-backend effect
    completion,     \* useCompletion: attachedFiles, error, attach requests in flight
    settings,       \* ScreenshotConfigs: the buffer-seconds draft and what onBlur passed on
    screenshot,     \* trigger-screenshot listener: clock, lastScreenshotEventTime, invocations
    listeners,      \* globalEventListeners, the listeners registered, the setup runs
    shortcuts,      \* globalCustomShortcutCallbacks and the mounted useShortcuts components
    windowResize    \* useWindowResize: refs, timers, the window's height

daemonVars == <<macos, buffer, write_index, logical_len, recording, capture_handle,
                workers, nextWorker, cmd, totalWritten, lastSnap, hist>>
encVars == <<encIn, encOut>>
uiVars == <<appContext, completion, settings, screenshot, listeners, shortcuts,
            windowResize>>
vars == <<macos, buffer, write_index, logical_len, recording, capture_handle,
          workers, nextWorker, cmd, totalWritten, lastSnap, hist, encIn, encOut,
          appContext, completion, settings, screenshot, listeners, shortcuts,
          windowResize>>

Min(a, b) == IF a <= b THEN a ELSE b

\* ------------------------------------------------------------ ring buffer
Ring == [buffer |-> buffer, write_index |-> write_index]

\* push_sample that forgets to wrap the index
push_sample_nowrap(r, s) ==
    [buffer |-> [r.buffer EXCEPT ![r.write_index] = s],
     write_index |-> r.write_index + 1]

\* push_sample(sample): store at write_index, advance it round the ring
push_sample(r, s) ==
    [buffer |-> [r.buffer EXCEPT ![r.write_index] = s],
     write_index |-> (r.write_index + 1) % capacity]

\* push_samples(samples): the samples in order, under one lock
RECURSIVE push_samples(_, _)
push_samples(r, ss) ==
    IF ss = <<>> THEN r
    ELSE push_samples(push_sample(r, Head(ss)), Tail(ss))

\* set_buffer_seconds without the cap
set_buffer_seconds_uncapped(seconds) == seconds * SamplesPerSecond

\* set_buffer_seconds(seconds): logical_len from seconds, capped by capacity
set_buffer_seconds(seconds) == Min(seconds * SamplesPerSecond, capacity)

\* reads storage from its start instead of unwrapping from write_index
recent_samples_linear(buf, wi, n) ==
    [k \in 1 .. n |-> buf[(k - 1) % capacity]]

\* the last n samples before index wi, oldest first
recent_samples(buf, wi, n) ==
    [k \in 1 .. n |-> buf[(wi + capacity - n + (k - 1)) % capacity]]

\* 16-bit PCM: two data bytes per sample
wav_data_len(samples) == 2 * Len(samples)

\* get_recent_base64(): the last logical_len samples in order, as a WAV clip
get_recent_base64 ==
    LET samples == recent_samples(buffer, write_index, logical_len)
    IN  [taken |-> TRUE,
         samples |-> samples,
         dataBytes |-> wav_data_len(samples),
         window |-> logical_len,
         total |-> totalWritten]

\* system_audio_status()
system_audio_status ==
    [recording |-> recording,
     buffer_seconds |-> logical_len \div SamplesPerSecond,
     supported |-> macos]

\* ------------------------------------------------------- floatArrayToWav
\* A sample k stands for the float k / SampleDen.
SampleNums == (0 - MaxSampleNum) .. MaxSampleNum
SampleRates == {8000, 16000, 48000}
Formats == {"wav", "mp3", "ogg"}
AudioInputs ==
    UNION {[1 .. n -> SampleNums] : n \in 0 .. MaxAudioLen}
\* channel counts of the audio handed over (the daemon captures CHANNELS = 2)
CaptureChannels == {1, 2}
NoInput == [audioData |-> <<>>, sampleRate |-> 16000, format |-> "wav", channels |-> 1]
NoBlob == [made |-> FALSE]

Max(a, b) == IF a >= b THEN a ELSE b
\* a Number truncated toward zero, as the DataView setters do before wrapping
TruncDiv(a, b) == IF a >= 0 THEN a \div b ELSE 0 - ((0 - a) \div b)
\* DataView.setInt16: the integer modulo 2^16, read as signed
ToInt16(v) == ((v + 32768) % 65536) - 32768

\* no clamp: the sample is scaled as it comes
sample_unclamped(k) == k

\* Math.max(-1, Math.min(1, audioData[i]))
sample_clamped(k) == Max(0 - SampleDen, Min(SampleDen, k))

\* view.setInt16(offset, sample < 0 ? sample * 0x8000 : sample * 0x7fff, true)
pcm16(k) ==
    LET sample == sample_clamped(k)
        scaled == IF sample < 0 THEN sample * 32768 ELSE sample * 32767
    IN  ToInt16(TruncDiv(scaled, SampleDen))

\* dataSize: format === "wav" ? 36 + length * 2 : 44 + length * 2
riff_size(n, format) ==
    IF format = "wav" THEN 36 + n * 2 ELSE 44 + n * 2

\* floatArrayToWav(audioData, sampleRate, format): the Blob's bytes, field by
\* field (every 32-bit field here is far below 2^32, so setUint32 stores it as is)
floatArrayToWav(audioData, sampleRate, format) ==
    LET n == Len(audioData)
    IN  [made |-> TRUE,
         byteLength |-> 44 + n * 2,
         riffTag |-> "RIFF",
         riffSize |-> riff_size(n, format),
         formType |-> IF format = "wav" THEN "WAVE" ELSE "FORM",
         fmtSize |-> 16,
         audioFormat |-> 1,
         channels |-> 1,
         sampleRate |-> sampleRate,
         byteRate |-> sampleRate * 2,
         blockAlign |-> 2,
         bitsPerSample |-> 16,
         dataSize |-> n * 2,
         pcm |-> [i \in 1 .. n |-> pcm16(audioData[i])],
         mime |-> format]

\* ---------------------------------------------------------------- helpers
Alive(w) == workers[w].pc \in {"check", "push"}
AliveWorkers == {w \in WorkerIds : Alive(w)}
IdleCmd == [pc |-> "idle", arg |-> 0, h |-> None, pre |-> <<>>]
HostIdle == \A c \in Ctx : cmd[c].pc = "idle"
StartsInFlight ==
    Cardinality({c \in Ctx : cmd[c].pc \in
        {"start_check", "start_set", "start_flag", "start_capture"}})
\* samples the running blocks still have to push
Owed(w) == IF workers[w].pc = "push" THEN Chunk - workers[w].i ELSE 0
RECURSIVE SumOwed(_)
SumOwed(S) ==
    IF S = {} THEN 0
    ELSE LET w == CHOOSE x \in S : TRUE IN Owed(w) + SumOwed(S \ {w})

Remember(h, e) ==
    LET a == Append(h, e)
    IN  IF Len(a) <= HistLen THEN a ELSE SubSeq(a, Len(a) - HistLen + 1, Len(a))

\* a command returns: the context is free again and the result is remembered
Return(c, result) ==
    /\ cmd' = [cmd EXCEPT ![c] = IdleCmd]
    /\ hist' = Remember(hist, result)

\* --------------------------------------------------------- frontend state
\* what each piece of frontend state is when the application has loaded
\* systemAudioDaemonConfig is { enabled: false, bufferSeconds: 30 } and the
\* sync-to-backend effect has yet to run for the first render
appContextInit ==
    [enabled |-> FALSE, bufferSeconds |-> DEFAULT_BUFFER_SECONDS,
     effectPending |-> TRUE, changes |-> 0]
\* no file attached, no error, no attach request in flight; events, succeeded
\* and last are history (what has happened so far)
completionInit ==
    [attachedFiles |-> <<>>, error |-> FALSE, pending |-> 0,
     events |-> 0, succeeded |-> 0, last |-> "none"]
\* the draft is String(systemAudioDaemonConfig.bufferSeconds ?? 30); nothing
\* has been passed to the handler yet (passed, what the last blur passed on,
\* and last, the last event, are history)
settingsInit == [bufferInput |-> <<"3", "0">>, passed |-> <<>>, last |-> "load"]
\* lastScreenshotEventTime = 0, globalScreenshotCallback = null; Date.now() is
\* far from 0 when the application loads (now, invoked, the times the callback
\* was invoked at, and outcome, what the last event led to, are history)
screenshotInit ==
    [now |-> DEBOUNCE_MS, lastScreenshotEventTime |-> 0,
     globalScreenshotCallback |-> FALSE, invoked |-> <<>>, outcome |-> "none"]
\* globalEventListeners = {}: no unlisten function stored, no listener
\* registered, no setupEventListeners run started.  A listener is named by
\* the run that registered it and the event type it listens to.
EventTypes ==
    <<"focus-text-input", "trigger-screenshot", "custom-shortcut-triggered",
      "shortcut-registration-error">>
EventIx == 1 .. Len(EventTypes)
Runs == 1 .. MaxMounts
NoListener == <<0, 0>>
listenersInit ==
    [globalEventListeners |-> [k \in EventIx |-> NoListener],
     registered |-> {},
     runs |-> [r \in Runs |-> [pc |-> "none", k |-> 0]]]
\* globalCustomShortcutCallbacks = new Map(), no component mounted.  A callback
\* is named by the component that registered it; NoCallback is a missing entry.
\* called is history: what the last custom-shortcut-triggered event invoked.
ActionIds == {"toggle_window", "attach_system_audio"}
Components == 1 .. MaxComponents
NoCallback == 0
shortcutsInit ==
    [globalCustomShortcutCallbacks |-> [a \in ActionIds |-> NoCallback],
     components |-> [c \in Components |-> [mounted |-> FALSE, customShortcuts |-> {}]],
     called |-> <<>>]
\* both refs are null (0), no timer is set, no set_window_height is in flight.
\* height (what the window was last set to, 0: never set), lastCall (the
\* height the most recent call asked for) and calls are history.
windowResizeInit ==
    [lastRequestedHeightRef |-> 0, resizeTimerRef |-> 0,
     timers |-> {}, inFlight |-> {}, height |-> 0, lastCall |-> 0, calls |-> 0]

UiInit ==
    /\ appContext = appContextInit
    /\ completion = completionInit
    /\ settings = settingsInit
    /\ screenshot = screenshotInit
    /\ listeners = listenersInit
    /\ shortcuts = shortcutsInit
    /\ windowResize = windowResizeInit

\* ------------------------------------------------------------------- Init
\* SystemAudioState::new(): zeroed buffer, default logical_len, not recording
Init ==
    /\ macos \in BOOLEAN
    /\ buffer = [k \in 0 .. capacity - 1 |-> 0]
    /\ write_index = 0
    /\ logical_len = set_buffer_seconds(DEFAULT_BUFFER_SECONDS)
    /\ recording = FALSE
    /\ capture_handle = None
    /\ workers = [w \in WorkerIds |-> [pc |-> "none", i |-> 0]]
    /\ nextWorker = 1
    /\ cmd = [c \in Ctx |-> IdleCmd]
    /\ totalWritten = 0
    /\ lastSnap = [taken |-> FALSE, samples |-> <<>>, dataBytes |-> 0,
                   window |-> 0, total |-> 0]
    /\ hist = <<>>
    /\ encIn = NoInput
    /\ encOut = NoBlob
    /\ UiInit

\* ----------------------------------------------------- system_audio_start
invoke_start(c, secs) ==
    /\ cmd[c].pc = "idle"
    /\ nextWorker + StartsInFlight <= MaxWorkers
    /\ cmd' = [cmd EXCEPT ![c] =
                [pc |-> "start_check", arg |-> secs, h |-> None,
                 pre |-> <<buffer, write_index, totalWritten>>]]
    /\ UNCHANGED <<uiVars, encIn, encOut, macos, buffer, write_index, logical_len, recording,
                   capture_handle, workers, nextWorker, totalWritten, lastSnap, hist>>

\* a start that goes on to start a capture although one is recording
start_again_while_recording(c) ==
    /\ cmd[c].pc = "start_check"
    /\ recording
    /\ cmd' = [cmd EXCEPT ![c].pc = "start_set"]
    /\ UNCHANGED <<uiVars, encIn, encOut, macos, buffer, write_index, logical_len, recording,
                   capture_handle, workers, nextWorker, totalWritten, lastSnap, hist>>

\* the already-recording branch of start, if it applied the new buffer seconds
start_already_recording_resize(c) ==
    /\ cmd[c].pc = "start_check"
    /\ recording
    /\ logical_len' = set_buffer_seconds(cmd[c].arg)
    /\ Return(c, "start_ok")
    /\ UNCHANGED <<uiVars, encIn, encOut, macos, buffer, write_index, recording,
                   capture_handle, workers, nextWorker, totalWritten, lastSnap>>

\* if already recording, return Ok
start_already_recording(c) ==
    /\ cmd[c].pc = "start_check"
    /\ recording
    /\ Return(c, "start_ok")
    /\ UNCHANGED <<uiVars, encIn, encOut, macos, buffer, write_index, logical_len, recording,
                   capture_handle, workers, nextWorker, totalWritten, lastSnap>>

start_not_recording(c) ==
    /\ cmd[c].pc = "start_check"
    /\ ~recording
    /\ cmd' = [cmd EXCEPT ![c].pc = "start_set"]
    /\ UNCHANGED <<uiVars, encIn, encOut, macos, buffer, write_index, logical_len, recording,
                   capture_handle, workers, nextWorker, totalWritten, lastSnap, hist>>

\* else set buffer seconds
start_set_buffer_seconds(c) ==
    /\ cmd[c].pc = "start_set"
    /\ logical_len' = set_buffer_seconds(cmd[c].arg)
    /\ cmd' = [cmd EXCEPT ![c].pc = "start_flag"]
    /\ UNCHANGED <<uiVars, encIn, encOut, macos, buffer, write_index, recording,
                   capture_handle, workers, nextWorker, totalWritten, lastSnap, hist>>

\* set recording = true
start_set_recording(c) ==
    /\ cmd[c].pc = "start_flag"
    /\ recording' = TRUE
    /\ cmd' = [cmd EXCEPT ![c].pc = "start_capture"]
    /\ UNCHANGED <<uiVars, encIn, encOut, macos, buffer, write_index, logical_len,
                   capture_handle, workers, nextWorker, totalWritten, lastSnap, hist>>

\* a failed start that leaves the flag set
flag_left_set == TRUE

\* what a failed start does to the flag: set recording = false
flag_after_failed_start == FALSE

\* on non-macOS return an error string
start_unsupported(c) ==
    /\ cmd[c].pc = "start_capture"
    /\ ~macos
    /\ recording' = flag_after_failed_start
    /\ Return(c, "start_err")
    /\ UNCHANGED <<uiVars, encIn, encOut, macos, buffer, write_index, logical_len,
                   capture_handle, workers, nextWorker, totalWritten, lastSnap>>

\* on macOS start_capture failed: set recording = false and return Err
start_capture_failed(c) ==
    /\ cmd[c].pc = "start_capture"
    /\ macos
    /\ recording' = flag_after_failed_start
    /\ Return(c, "start_err")
    /\ UNCHANGED <<uiVars, encIn, encOut, macos, buffer, write_index, logical_len,
                   capture_handle, workers, nextWorker, totalWritten, lastSnap>>

\* start_capture: try_start_process_tap fails (stub), the fallback thread is spawned
start_capture_spawn(c) ==
    /\ cmd[c].pc = "start_capture"
    /\ macos
    /\ nextWorker <= MaxWorkers
    /\ workers' = [workers EXCEPT ![nextWorker] = [pc |-> "check", i |-> 0]]
    /\ nextWorker' = nextWorker + 1
    /\ cmd' = [cmd EXCEPT ![c].pc = "start_store", ![c].h = nextWorker]
    /\ UNCHANGED <<uiVars, encIn, encOut, macos, buffer, write_index, logical_len, recording,
                   capture_handle, totalWritten, lastSnap, hist>>

\* start's last step, if it returned without storing the join handle
start_forget_capture_handle(c) ==
    /\ cmd[c].pc = "start_store"
    /\ Return(c, "start_ok")
    /\ UNCHANGED <<uiVars, encIn, encOut, macos, buffer, write_index, logical_len, recording,
                   capture_handle, workers, nextWorker, totalWritten, lastSnap>>

\* store_capture_handle(handle), then start returns Ok
start_store_capture_handle(c) ==
    /\ cmd[c].pc = "start_store"
    /\ capture_handle' = cmd[c].h
    /\ Return(c, "start_ok")
    /\ UNCHANGED <<uiVars, encIn, encOut, macos, buffer, write_index, logical_len, recording,
                   workers, nextWorker, totalWritten, lastSnap>>

\* ------------------------------------------------------ system_audio_stop
invoke_stop(c) ==
    /\ cmd[c].pc = "idle"
    /\ cmd' = [cmd EXCEPT ![c] =
                [pc |-> "stop_flag", arg |-> 0, h |-> None, pre |-> <<>>]]
    /\ UNCHANGED <<uiVars, encIn, encOut, macos, buffer, write_index, logical_len, recording,
                   capture_handle, workers, nextWorker, totalWritten, lastSnap, hist>>

\* stop's first step, if it also put the write cursor back to the start
stop_clear_and_rewind(c) ==
    /\ cmd[c].pc = "stop_flag"
    /\ recording' = FALSE
    /\ write_index' = 0
    /\ cmd' = [cmd EXCEPT ![c].pc = "stop_take", ![c].pre = <<totalWritten>>]
    /\ UNCHANGED <<uiVars, encIn, encOut, macos, buffer, logical_len,
                   capture_handle, workers, nextWorker, totalWritten, lastSnap, hist>>

\* set recording = false; stop_capture() is a no-op
stop_clear_recording(c) ==
    /\ cmd[c].pc = "stop_flag"
    /\ recording' = FALSE
    /\ cmd' = [cmd EXCEPT ![c].pc = "stop_take", ![c].pre = <<totalWritten>>]
    /\ UNCHANGED <<uiVars, encIn, encOut, macos, buffer, write_index, logical_len,
                   capture_handle, workers, nextWorker, totalWritten, lastSnap, hist>>

\* stop finding no join handle, if it reported that as an error
stop_missing_handle_is_error(c) ==
    /\ cmd[c].pc = "stop_take"
    /\ capture_handle = None
    /\ Return(c, "stop_err")
    /\ UNCHANGED <<uiVars, encIn, encOut, macos, buffer, write_index, logical_len, recording,
                   capture_handle, workers, nextWorker, totalWritten, lastSnap>>

\* take the join handle out of capture_handle; none present: stop returns
stop_no_handle(c) ==
    /\ cmd[c].pc = "stop_take"
    /\ capture_handle = None
    /\ Return(c, "stop_ok")
    /\ UNCHANGED <<uiVars, encIn, encOut, macos, buffer, write_index, logical_len, recording,
                   capture_handle, workers, nextWorker, totalWritten, lastSnap>>

stop_take_handle(c) ==
    /\ cmd[c].pc = "stop_take"
    /\ capture_handle # None
    /\ capture_handle' = None
    /\ cmd' = [cmd EXCEPT ![c].pc = "stop_join", ![c].h = capture_handle]
    /\ UNCHANGED <<uiVars, encIn, encOut, macos, buffer, write_index, logical_len, recording,
                   workers, nextWorker, totalWritten, lastSnap, hist>>

\* stop that signals the thread and returns without waiting for it
join_ready_signalled(w) == TRUE

\* may stop return once it holds the handle of thread w?
join_ready(w) == workers[w].pc = "done"

\* join the thread: returns when the thread has exited
stop_join(c) ==
    /\ cmd[c].pc = "stop_join"
    /\ join_ready(cmd[c].h)
    /\ workers' = [workers EXCEPT ![cmd[c].h].pc =
                     IF @ = "done" THEN "joined" ELSE @]
    /\ Return(c, "stop_ok")
    /\ UNCHANGED <<uiVars, encIn, encOut, macos, buffer, write_index, logical_len, recording,
                   capture_handle, nextWorker, totalWritten, lastSnap>>

\* ------------------------------------------------- fallback capture thread
\* a fallback thread that starts its next chunk without looking at the flag
worker_begin_chunk_unchecked(w) ==
    /\ workers[w].pc = "check"
    /\ totalWritten + SumOwed(WorkerIds) + Chunk <= MaxWorkerWrites
    /\ workers' = [workers EXCEPT ![w] = [pc |-> "push", i |-> 0]]
    /\ UNCHANGED <<uiVars, encIn, encOut, macos, buffer, write_index, logical_len, recording,
                   capture_handle, nextWorker, cmd, totalWritten, lastSnap, hist>>

\* while state.is_recording(): start the next chunk of silence
worker_begin_chunk(w) ==
    /\ workers[w].pc = "check"
    /\ recording
    /\ totalWritten + SumOwed(WorkerIds) + Chunk <= MaxWorkerWrites
    /\ workers' = [workers EXCEPT ![w] = [pc |-> "push", i |-> 0]]
    /\ UNCHANGED <<uiVars, encIn, encOut, macos, buffer, write_index, logical_len, recording,
                   capture_handle, nextWorker, cmd, totalWritten, lastSnap, hist>>

\* is_recording() is false: the thread exits
worker_exit(w) ==
    /\ workers[w].pc = "check"
    /\ ~recording
    /\ workers' = [workers EXCEPT ![w] = [pc |-> "done", i |-> 0]]
    /\ UNCHANGED <<uiVars, encIn, encOut, macos, buffer, write_index, logical_len, recording,
                   capture_handle, nextWorker, cmd, totalWritten, lastSnap, hist>>

\* a capture thread that pushes a signal instead of silence
worker_push_noise(w) ==
    /\ workers[w].pc = "push"
    /\ LET r == push_sample(Ring, 1)
       IN  /\ buffer' = r.buffer
           /\ write_index' = r.write_index
    /\ totalWritten' = totalWritten + 1
    /\ workers' = [workers EXCEPT ![w] =
                     IF workers[w].i + 1 = Chunk
                     THEN [pc |-> "check", i |-> 0]
                     ELSE [pc |-> "push", i |-> workers[w].i + 1]]
    /\ UNCHANGED <<uiVars, encIn, encOut, macos, logical_len, recording, capture_handle,
                   nextWorker, cmd, lastSnap, hist>>

\* state.push_sample(0.0), one of the chunk's samples
worker_push_sample(w) ==
    /\ workers[w].pc = "push"
    /\ LET r == push_sample(Ring, 0)
       IN  /\ buffer' = r.buffer
           /\ write_index' = r.write_index
    /\ totalWritten' = totalWritten + 1
    /\ workers' = [workers EXCEPT ![w] =
                     IF workers[w].i + 1 = Chunk
                     THEN [pc |-> "check", i |-> 0]
                     ELSE [pc |-> "push", i |-> workers[w].i + 1]]
    /\ UNCHANGED <<uiVars, encIn, encOut, macos, logical_len, recording, capture_handle,
                   nextWorker, cmd, lastSnap, hist>>

\* ---------------------------------------- system_audio_get_recent_base64
snapshot ==
    /\ lastSnap' = get_recent_base64
    /\ UNCHANGED <<uiVars, encIn, encOut, macos, buffer, write_index, logical_len, recording,
                   capture_handle, workers, nextWorker, cmd, totalWritten, hist>>

\* ---------------------------------------------------------- specifications
CommandStep(c) ==
    \/ start_already_recording(c)
    \/ start_not_recording(c)
    \/ start_set_buffer_seconds(c)
    \/ start_set_recording(c)
    \/ start_unsupported(c)
    \/ start_capture_failed(c)
    \/ start_capture_spawn(c)
    \/ start_store_capture_handle(c)
    \/ stop_clear_recording(c)
    \/ stop_no_handle(c)
    \/ stop_take_handle(c)
    \/ stop_join(c)

WorkerStep ==
    \E w \in WorkerIds :
        \/ worker_begin_chunk(w)
        \/ worker_exit(w)
        \/ worker_push_sample(w)

\* The host issues one command at a time (each runs to completion before the
\* next is invoked); the capture thread runs in parallel with it.
Next ==
    \/ \E secs \in SecondsArgs : HostIdle /\ invoke_start(1, secs)
    \/ HostIdle /\ invoke_stop(1)
    \/ CommandStep(1)
    \/ WorkerStep
    \/ HostIdle /\ snapshot

Spec == Init /\ [][Next]_vars

\* Spec with the scheduling the platform gives: a command that can take its
\* next step takes it, and so does every capture thread.
Fairness ==
    /\ WF_vars(CommandStep(1))
    /\ \A w \in WorkerIds :
         WF_vars(worker_begin_chunk(w) \/ worker_exit(w) \/ worker_push_sample(w))

SpecFair == Spec /\ Fairness

\* Commands are issued from MaxCmds execution contexts and interleave at every
\* access to the shared state.
NextConc ==
    \/ \E c \in Ctx : \E secs \in SecondsArgs : invoke_start(c, secs)
    \/ \E c \in Ctx : invoke_stop(c)
    \/ \E c \in Ctx : CommandStep(c)
    \/ WorkerStep
    \/ snapshot

SpecConc == Init /\ [][NextConc]_vars

\* ------------------------------------- app.context.tsx: sync to the backend
\* SystemAudioDaemonToggle.toggle: setSystemAudioDaemonConfig(prev => ({...prev,
\* enabled: !prev.enabled})); the change makes the sync effect due
toggle ==
    /\ ~appContext.effectPending
    /\ appContext.changes < MaxConfigChanges
    /\ appContext' = [appContext EXCEPT !.enabled = ~@, !.effectPending = TRUE,
                                        !.changes = @ + 1]
    /\ UNCHANGED <<daemonVars, encVars, completion, settings, screenshot, listeners,
                   shortcuts, windowResize>>

\* handleSystemAudioDaemonBufferSecondsChange(bufferSeconds): clamp, update config
handleSystemAudioDaemonBufferSecondsChange(secs) ==
    /\ ~appContext.effectPending
    /\ appContext.changes < MaxConfigChanges
    /\ LET v == Max(MIN_BUFFER_SECONDS, Min(MAX_BUFFER_SECONDS, secs))
       IN  /\ v # appContext.bufferSeconds
           /\ appContext' = [appContext EXCEPT !.bufferSeconds = v,
                                               !.effectPending = TRUE,
                                               !.changes = @ + 1]
    /\ UNCHANGED <<daemonVars, encVars, completion, settings, screenshot, listeners,
                   shortcuts, windowResize>>

\* the sync effect: if enabled invoke("system_audio_start", {bufferSeconds}),
\* else invoke("system_audio_stop"); the command is not awaited
sync_to_backend(c) ==
    /\ appContext.effectPending
    /\ cmd[c].pc = "idle"
    /\ appContext.enabled => nextWorker + StartsInFlight <= MaxWorkers
    /\ cmd' = [cmd EXCEPT ![c] =
                IF appContext.enabled
                THEN [pc |-> "start_check", arg |-> appContext.bufferSeconds,
                      h |-> None, pre |-> <<buffer, write_index, totalWritten>>]
                ELSE [pc |-> "stop_flag", arg |-> 0, h |-> None, pre |-> <<>>]]
    /\ appContext' = [appContext EXCEPT !.effectPending = FALSE]
    /\ UNCHANGED <<macos, buffer, write_index, logical_len, recording, capture_handle,
                   workers, nextWorker, totalWritten, lastSnap, hist, encVars,
                   completion, settings, screenshot, listeners, shortcuts, windowResize>>

\* The host changes its config at will; each change invokes a command that
\* runs in its own context next to the ones still in progress.
NextSync ==
    \/ toggle
    \/ \E secs \in SecondsArgs : handleSystemAudioDaemonBufferSecondsChange(secs)
    \/ \E c \in Ctx : sync_to_backend(c)
    \/ \E c \in Ctx : CommandStep(c)
    \/ WorkerStep

SpecSync == Init /\ [][NextSync]_vars

\* ------------------------------------ useCompletion: attaching system audio
\* the clips system_audio_get_recent_base64 can return
Clips == {"wavA", "wavB"}

\* addFileFromBase64 without its guard
addFileFromBase64_unguarded(prev, base64, id) ==
    [prev EXCEPT !.attachedFiles =
        Append(@, [id |-> id, base64 |-> base64, type |-> "audio/wav"])]

\* addFileFromBase64: setState(prev => prev.attachedFiles.length >= MAX_FILES
\* ? prev : {...prev, attachedFiles: [...prev.attachedFiles, file]})
addFileFromBase64(prev, base64, id) ==
    IF Len(prev.attachedFiles) >= MAX_FILES
    THEN prev
    ELSE [prev EXCEPT !.attachedFiles =
            Append(@, [id |-> id, base64 |-> base64, type |-> "audio/wav"])]

\* on trigger-attach-system-audio: invoke("system_audio_get_recent_base64")
trigger_attach_system_audio ==
    /\ completion.events < MaxAttachEvents
    /\ completion' = [completion EXCEPT !.pending = @ + 1, !.events = @ + 1,
                                        !.last = "event"]
    /\ UNCHANGED <<daemonVars, encVars, appContext, settings, screenshot, listeners,
                   shortcuts, windowResize>>

\* on success: addFileFromBase64(base64, "system_audio_<timestamp>.wav", "audio/wav")
attach_success(base64) ==
    /\ completion.pending > 0
    /\ completion' =
         [addFileFromBase64(completion, base64, completion.succeeded + 1)
            EXCEPT !.pending = @ - 1, !.succeeded = @ + 1, !.last = "ok"]
    /\ UNCHANGED <<daemonVars, encVars, appContext, settings, screenshot, listeners,
                   shortcuts, windowResize>>

\* on error: set state.error
attach_failure ==
    /\ completion.pending > 0
    /\ completion' = [completion EXCEPT !.error = TRUE, !.pending = @ - 1,
                                        !.last = "err"]
    /\ UNCHANGED <<daemonVars, encVars, appContext, settings, screenshot, listeners,
                   shortcuts, windowResize>>

NextAttach ==
    \/ trigger_attach_system_audio
    \/ \E b \in Clips : attach_success(b)
    \/ attach_failure

SpecAttach == Init /\ [][NextAttach]_vars

\* --------------------------------- ScreenshotConfigs: buffer-seconds input
\* A text is a sequence of characters.
DigitChars == <<"0", "1", "2", "3", "4", "5", "6", "7", "8", "9">>
IsDigit(ch) == \E d \in 1 .. 10 : DigitChars[d] = ch
DigitValue(ch) == (CHOOSE d \in 1 .. 10 : DigitChars[d] = ch) - 1
TypedChars == {"0", "3", "7", "-", ".", " "}
Texts == UNION {[1 .. n -> TypedChars] : n \in 0 .. MaxTextLen}

RECURSIVE SkipSpaces(_)
SkipSpaces(t) == IF t # <<>> /\ Head(t) = " " THEN SkipSpaces(Tail(t)) ELSE t

\* the value of the leading digits of t after acc, and how many there were
RECURSIVE LeadingDigits(_, _, _)
LeadingDigits(t, acc, n) ==
    IF t # <<>> /\ IsDigit(Head(t))
    THEN LeadingDigits(Tail(t), acc * 10 + DigitValue(Head(t)), n + 1)
    ELSE [value |-> acc, count |-> n]

\* parseInt(text, 10): leading white space, an optional sign, then digits up to
\* the first other character; NaN when there is no digit
parseInt(text) ==
    LET t == SkipSpaces(text)
        neg == t # <<>> /\ Head(t) = "-"
        body == IF neg THEN Tail(t) ELSE t
        d == LeadingDigits(body, 0, 0)
    IN  IF d.count = 0 THEN [nan |-> TRUE, value |-> 0]
        ELSE [nan |-> FALSE, value |-> IF neg THEN 0 - d.value ELSE d.value]

\* String(n) for an integer n >= 0
RECURSIVE ToText(_)
ToText(n) ==
    IF n < 10 THEN <<DigitChars[n + 1]>>
    ELSE Append(ToText(n \div 10), DigitChars[(n % 10) + 1])

\* the value onBlur would pass on if it did not clamp
finalValue_unclamped(text) ==
    LET v == parseInt(text)
    IN  IF v.nan THEN 30 ELSE v.value

\* finalValue = Number.isNaN(v) ? 30 : Math.min(300, Math.max(5, v))
finalValue(text) ==
    LET v == parseInt(text)
    IN  IF v.nan THEN 30 ELSE Min(300, Max(5, v.value))

\* onChange: setBufferInput(e.target.value)
buffer_input_onChange(text) ==
    /\ settings' = [bufferInput |-> text, passed |-> <<>>, last |-> "change"]
    /\ UNCHANGED <<daemonVars, encVars, appContext, completion, screenshot, listeners,
                   shortcuts, windowResize>>

\* onBlur: setBufferInput(String(finalValue)) and
\* handleSystemAudioDaemonBufferSecondsChange(finalValue)
buffer_input_onBlur ==
    /\ LET v == finalValue(settings.bufferInput)
       IN  settings' = [bufferInput |-> IF v >= 0 THEN ToText(v)
                                        ELSE <<"-">> \o ToText(0 - v),
                        passed |-> <<v>>,
                        last |-> "blur"]
    /\ UNCHANGED <<daemonVars, encVars, appContext, completion, screenshot, listeners,
                   shortcuts, windowResize>>

NextSettings ==
    \/ \E text \in Texts : buffer_input_onChange(text)
    \/ buffer_input_onBlur

SpecSettings == Init /\ [][NextSettings]_vars

\* ------------------------------------------ trigger-screenshot listener
\* a listener that lets every event through
debounced_never(now, last) == FALSE

\* timeSinceLastEvent < 300
debounced(now, last) == now - last < DEBOUNCE_MS

\* Date.now() advances
clock_tick ==
    /\ screenshot.now < DEBOUNCE_MS + MaxTicks
    /\ screenshot' = [screenshot EXCEPT !.now = @ + 1]
    /\ UNCHANGED <<daemonVars, encVars, appContext, completion, settings, listeners,
                   shortcuts, windowResize>>

\* registerScreenshotCallback(callback): globalScreenshotCallback = callback
registerScreenshotCallback ==
    /\ screenshot' = [screenshot EXCEPT !.globalScreenshotCallback = TRUE]
    /\ UNCHANGED <<daemonVars, encVars, appContext, completion, settings, listeners,
                   shortcuts, windowResize>>

\* the trigger-screenshot listener
trigger_screenshot ==
    /\ LET now == screenshot.now
       IN  screenshot' =
             IF debounced(now, screenshot.lastScreenshotEventTime)
             THEN [screenshot EXCEPT !.outcome = "dropped"]
             ELSE IF screenshot.globalScreenshotCallback
             THEN [screenshot EXCEPT !.lastScreenshotEventTime = now,
                                     !.invoked = Append(@, now),
                                     !.outcome = "invoked"]
             ELSE [screenshot EXCEPT !.lastScreenshotEventTime = now,
                                     !.outcome = "no_callback"]
    /\ UNCHANGED <<daemonVars, encVars, appContext, completion, settings, listeners,
                   shortcuts, windowResize>>

NextScreenshot ==
    \/ clock_tick
    \/ registerScreenshotCallback
    \/ trigger_screenshot

SpecScreenshot == Init /\ [][NextScreenshot]_vars

\* -------------------------------- useGlobalShortcuts: setupEventListeners
\* The effect runs setupEventListeners() whenever the hook mounts, whether or
\* not an earlier run is still at one of its awaits.
\* setupEventListeners up to its first await: call every unlisten function
\* stored in globalEventListeners (the fields stay as they are), then call
\* listen("focus-text-input", ...)
setup_begin(r) ==
    /\ listeners.runs[r].pc = "none"
    /\ \A q \in Runs : q < r => listeners.runs[q].pc # "none"
    /\ listeners' =
         [listeners EXCEPT
            !.registered = @ \ {listeners.globalEventListeners[k] : k \in EventIx},
            !.runs[r] = [pc |-> "await", k |-> 1]]
    /\ UNCHANGED <<daemonVars, encVars, appContext, completion, settings, screenshot,
                   shortcuts, windowResize>>

\* an awaited listen() resolves: the listener is registered, its unlisten
\* function is stored in globalEventListeners, and the next listen() is called
setup_resume(r) ==
    /\ listeners.runs[r].pc = "await"
    /\ LET k == listeners.runs[r].k
       IN  listeners' =
             [listeners EXCEPT
                !.registered = @ \cup {<<r, k>>},
                !.globalEventListeners[k] = <<r, k>>,
                !.runs[r] = IF k = Len(EventTypes)
                            THEN [pc |-> "done", k |-> 0]
                            ELSE [pc |-> "await", k |-> k + 1]]
    /\ UNCHANGED <<daemonVars, encVars, appContext, completion, settings, screenshot,
                   shortcuts, windowResize>>

NextListeners ==
    \/ \E r \in Runs : setup_begin(r)
    \/ \E r \in Runs : setup_resume(r)

SpecListeners == Init /\ [][NextListeners]_vars

\* ------------------------------------------- useShortcuts: custom callbacks
\* registerCustomShortcutCallback(actionId, callback) for every entry of ids:
\* globalCustomShortcutCallbacks.set(actionId, callback)
registerAll(map, ids, c) == [a \in ActionIds |-> IF a \in ids THEN c ELSE map[a]]

\* unregisterCustomShortcutCallback(actionId) for every key of ids:
\* globalCustomShortcutCallbacks.delete(actionId)
unregisterAll(map, ids) == [a \in ActionIds |-> IF a \in ids THEN NoCallback ELSE map[a]]

\* a component mounts with customShortcuts = ids: the effect registers them
useShortcuts_mount(c, ids) ==
    /\ ~shortcuts.components[c].mounted
    /\ shortcuts' =
         [shortcuts EXCEPT
            !.components[c] = [mounted |-> TRUE, customShortcuts |-> ids],
            !.globalCustomShortcutCallbacks = registerAll(@, ids, c)]
    /\ UNCHANGED <<daemonVars, encVars, appContext, completion, settings, screenshot,
                   listeners, windowResize>>

\* customShortcuts changes on a render: the effect's cleanup unregisters the
\* old keys, then the effect registers the new entries
useShortcuts_update(c, ids) ==
    /\ shortcuts.components[c].mounted
    /\ shortcuts' =
         [shortcuts EXCEPT
            !.components[c].customShortcuts = ids,
            !.globalCustomShortcutCallbacks =
                registerAll(unregisterAll(@, shortcuts.components[c].customShortcuts),
                            ids, c)]
    /\ UNCHANGED <<daemonVars, encVars, appContext, completion, settings, screenshot,
                   listeners, windowResize>>

\* the component unmounts: the effect's cleanup unregisters its keys
useShortcuts_unmount(c) ==
    /\ shortcuts.components[c].mounted
    /\ shortcuts' =
         [shortcuts EXCEPT
            !.components[c] = [mounted |-> FALSE, customShortcuts |-> {}],
            !.globalCustomShortcutCallbacks =
                unregisterAll(@, shortcuts.components[c].customShortcuts)]
    /\ UNCHANGED <<daemonVars, encVars, appContext, completion, settings, screenshot,
                   listeners, windowResize>>

\* the custom-shortcut-triggered listener: callback =
\* globalCustomShortcutCallbacks.get(actionId); if (callback) callback()
custom_shortcut_triggered(a) ==
    /\ shortcuts' = [shortcuts EXCEPT
                       !.called = <<a, shortcuts.globalCustomShortcutCallbacks[a]>>]
    /\ UNCHANGED <<daemonVars, encVars, appContext, completion, settings, screenshot,
                   listeners, windowResize>>

NextShortcuts ==
    \/ \E c \in Components : \E ids \in SUBSET ActionIds : useShortcuts_mount(c, ids)
    \/ \E c \in Components : \E ids \in SUBSET ActionIds : useShortcuts_update(c, ids)
    \/ \E c \in Components : useShortcuts_unmount(c)
    \/ \E a \in ActionIds : custom_shortcut_triggered(a)

SpecShortcuts == Init /\ [][NextShortcuts]_vars

\* ----------------------------------------- useWindowResize.resizeWindow
\* A pending timer is <<id, height>>; a timer callback waiting at its
\* await invoke("set_window_height") is <<id, height, applied>>.
TimerIds == 1 .. MaxResizeCalls
Heights == {54, 600}
clearTimeout(timers, id) == {t \in timers : t[1] # id}

\* resizeWindow(expanded) with no popover open
resizeWindow(expanded) ==
    /\ windowResize.calls < MaxResizeCalls
    /\ LET newHeight == IF expanded THEN 600 ELSE 54
           id == windowResize.calls + 1
       IN  windowResize' =
             IF windowResize.lastRequestedHeightRef = newHeight
             THEN [windowResize EXCEPT !.lastCall = newHeight, !.calls = id]
             ELSE [windowResize EXCEPT
                     !.timers = clearTimeout(@, windowResize.resizeTimerRef)
                                    \cup {<<id, newHeight>>},
                     !.resizeTimerRef = id,
                     !.lastCall = newHeight,
                     !.calls = id]
    /\ UNCHANGED <<daemonVars, encVars, appContext, completion, settings, screenshot,
                   listeners, shortcuts>>

\* 150 ms have passed: the timer's callback starts and awaits
\* invoke("set_window_height", {window, height: newHeight})
resize_timer_fires(t) ==
    /\ t \in windowResize.timers
    /\ windowResize' = [windowResize EXCEPT !.timers = @ \ {t},
                                            !.inFlight = @ \cup {<<t[1], t[2], FALSE>>}]
    /\ UNCHANGED <<daemonVars, encVars, appContext, completion, settings, screenshot,
                   listeners, shortcuts>>

\* the backend runs set_window_height
set_window_height(f) ==
    /\ f \in windowResize.inFlight
    /\ ~f[3]
    /\ windowResize' = [windowResize EXCEPT
                          !.height = f[2],
                          !.inFlight = (@ \ {f}) \cup {<<f[1], f[2], TRUE>>}]
    /\ UNCHANGED <<daemonVars, encVars, appContext, completion, settings, screenshot,
                   listeners, shortcuts>>

\* the await returns: lastRequestedHeightRef.current = newHeight, then the
\* finally block clears whatever timer resizeTimerRef holds and nulls the ref
resize_callback_resumes(f) ==
    /\ f \in windowResize.inFlight
    /\ f[3]
    /\ windowResize' = [windowResize EXCEPT
                          !.lastRequestedHeightRef = f[2],
                          !.timers = clearTimeout(@, windowResize.resizeTimerRef),
                          !.resizeTimerRef = 0,
                          !.inFlight = @ \ {f}]
    /\ UNCHANGED <<daemonVars, encVars, appContext, completion, settings, screenshot,
                   listeners, shortcuts>>

NextResize ==
    \/ \E expanded \in BOOLEAN : resizeWindow(expanded)
    \/ \E id \in TimerIds : \E h \in Heights : resize_timer_fires(<<id, h>>)
    \/ \E id \in TimerIds : \E h \in Heights : set_window_height(<<id, h, FALSE>>)
    \/ \E id \in TimerIds : \E h \in Heights : resize_callback_resumes(<<id, h, TRUE>>)

SpecResize == Init /\ [][NextResize]_vars

\* ------------------------------------------------- ring buffer on its own
\* The buffer's public methods driven directly with the samples 1, 2, 3, ...
\* (sample number n has value n), in blocks of every length up to MaxBlock.
ring_push_sample ==
    /\ totalWritten + 1 <= MaxWrites
    /\ LET r == push_sample(Ring, totalWritten + 1)
       IN  /\ buffer' = r.buffer
           /\ write_index' = r.write_index
    /\ totalWritten' = totalWritten + 1
    /\ UNCHANGED <<uiVars, encIn, encOut, macos, logical_len, recording, capture_handle, workers,
                   nextWorker, cmd, lastSnap, hist>>

ring_push_samples(n) ==
    /\ totalWritten + n <= MaxWrites
    /\ LET r == push_samples(Ring, [k \in 1 .. n |-> totalWritten + k])
       IN  /\ buffer' = r.buffer
           /\ write_index' = r.write_index
    /\ totalWritten' = totalWritten + n
    /\ UNCHANGED <<uiVars, encIn, encOut, macos, logical_len, recording, capture_handle, workers,
                   nextWorker, cmd, lastSnap, hist>>

ring_set_buffer_seconds(secs) ==
    /\ logical_len' = set_buffer_seconds(secs)
    /\ UNCHANGED <<uiVars, encIn, encOut, macos, buffer, write_index, recording, capture_handle, workers,
                   nextWorker, cmd, totalWritten, lastSnap, hist>>

NextRing ==
    \/ ring_push_sample
    \/ \E n \in 2 .. MaxBlock : ring_push_samples(n)
    \/ \E secs \in SecondsArgs : ring_set_buffer_seconds(secs)
    \/ snapshot

SpecRing == Init /\ [][NextRing]_vars

\* ------------------------------------------------ floatArrayToWav on its own
\* Every call floatArrayToWav(audioData, sampleRate, format) with the inputs
\* drawn at the start.
InitWav ==
    /\ macos \in BOOLEAN
    /\ buffer = [k \in 0 .. capacity - 1 |-> 0]
    /\ write_index = 0
    /\ logical_len = set_buffer_seconds(DEFAULT_BUFFER_SECONDS)
    /\ recording = FALSE
    /\ capture_handle = None
    /\ workers = [w \in WorkerIds |-> [pc |-> "none", i |-> 0]]
    /\ nextWorker = 1
    /\ cmd = [c \in Ctx |-> IdleCmd]
    /\ totalWritten = 0
    /\ lastSnap = [taken |-> FALSE, samples |-> <<>>, dataBytes |-> 0,
                   window |-> 0, total |-> 0]
    /\ hist = <<>>
    /\ encIn \in [audioData : AudioInputs, sampleRate : SampleRates, format : Formats,
                   channels : CaptureChannels]
    /\ encOut = NoBlob
    /\ UiInit

encode ==
    /\ ~encOut.made
    /\ encOut' = floatArrayToWav(encIn.audioData, encIn.sampleRate, encIn.format)
    /\ UNCHANGED <<uiVars, encIn, macos, buffer, write_index, logical_len, recording,
                   capture_handle, workers, nextWorker, cmd, totalWritten,
                   lastSnap, hist>>

NextWav == encode

SpecWav == InitWav /\ [][NextWav]_vars

\* ----------------------------------------------------------------- claims
Last(h) == h[Len(h)]
Starts == {"start_ok", "start_err"}
NoThread == \A w \in WorkerIds : workers[w].pc \in {"none", "joined"}
RingNow == <<buffer, write_index, totalWritten>>
\* the values n-k+1 .. n: the last k of the samples 1 .. n
LastWritten(n, k) == [j \in 1 .. k |-> n - k + j]

C2_AtMostOneWorkerAlive == Cardinality(AliveWorkers) <= 1

\* C3: from the return of stop until the next start has spawned its thread,
\* no capture thread exists un-joined and buffer, write_index and the count of
\* written samples do not change.
AfterStop ==
    /\ hist # <<>>
    /\ Last(hist) = "stop_ok"
    /\ \A c \in Ctx : cmd[c].pc # "start_store"

C3_QuietAfterStop ==
    [][AfterStop => (NoThread /\ (AfterStop' => RingNow' = RingNow))]_vars

C3_Witness ==
    /\ AfterStop
    /\ HostIdle
    /\ totalWritten > 0
    /\ \E w \in WorkerIds : workers[w].pc = "joined"

\* C4: every snapshot holds all or none of the samples of a chunk: none is
\* taken when only part of a chunk has been pushed.
C4_SnapshotNeverSplitsChunk ==
    lastSnap.taken => lastSnap.total % Chunk = 0

\* C5: with the samples 1..N written and N < capacity, a snapshot of window w
\* is exactly the last min(w, N) written values, oldest first, and nothing else.
C5_SnapshotBeforeWrap ==
    (lastSnap.taken /\ lastSnap.total < capacity)
        => lastSnap.samples =
             LastWritten(lastSnap.total, Min(lastSnap.window, lastSnap.total))

\* C6: with capacity + K samples written (K > 0, any split into blocks), a
\* snapshot of the whole capacity is exactly the most recent capacity values in
\* write order.
C6_WrapAround ==
    (lastSnap.taken /\ lastSnap.total > capacity /\ lastSnap.window = capacity)
        => lastSnap.samples = LastWritten(lastSnap.total, capacity)

C6_Witness ==
    /\ lastSnap.taken
    /\ lastSnap.total > capacity
    /\ lastSnap.total % capacity # 0
    /\ lastSnap.window = capacity

C8_EmptySnapshotWhenNothingWritten ==
    (lastSnap.taken /\ lastSnap.total = 0)
        => (lastSnap.samples = <<>> /\ lastSnap.dataBytes = 0)

StartReturns(c) ==
    /\ cmd[c].pc \in {"start_check", "start_capture", "start_store"}
    /\ cmd'[c].pc = "idle"

C10_RestartAlwaysRuns ==
    [][\A c \in Ctx :
         (StartReturns(c) /\ Len(hist) = 2 /\ hist[1] \in Starts /\ hist[2] = "stop_ok")
            => /\ Cardinality(AliveWorkers') = 1
               /\ system_audio_status'.buffer_seconds
                    = Min(cmd[c].arg, MAX_BUFFER_SECONDS)]_vars

\* C10 amended: when a start returns success after a start and a stop, exactly
\* one capture thread is alive, every earlier thread has been joined, and
\* status reports the seconds of that last start (capped at the maximum).
C10_CleanRestart ==
    [][\A c \in Ctx :
         (StartReturns(c) /\ Last(hist') = "start_ok"
            /\ Len(hist) = 2 /\ hist[1] \in Starts /\ hist[2] = "stop_ok")
            => /\ Cardinality(AliveWorkers') = 1
               /\ \A w \in WorkerIds :
                    workers'[w].pc \in {"none", "joined"} \/ w = capture_handle'
               /\ system_audio_status'.buffer_seconds
                    = Min(cmd[c].arg, MAX_BUFFER_SECONDS)]_vars

C10_Witness ==
    /\ HostIdle
    /\ hist = <<"stop_ok", "start_ok">>
    /\ nextWorker = 3
    /\ workers[1].pc = "joined"
    /\ Alive(2)
    /\ system_audio_status.buffer_seconds = MAX_BUFFER_SECONDS

\* ---- C11
StopPcs == {"stop_flag", "stop_take", "stop_join"}
ClampSeconds(secs) == Max(MIN_BUFFER_SECONDS, Min(MAX_BUFFER_SECONDS, secs))

\* C11 (as stated): for every bufferSeconds passed to start() from Idle, the
\* window start sets is the request clamped into
\* [MIN_BUFFER_SECONDS, MAX_BUFFER_SECONDS], and the window never exceeds capacity.
C11_WindowIsClampedRequest ==
    [][/\ logical_len' <= capacity
       /\ \A c \in Ctx :
            (cmd[c].pc = "start_set" /\ cmd'[c].pc = "start_flag")
              => logical_len' = ClampSeconds(cmd[c].arg) * SamplesPerSecond]_vars

\* the half of C11 the program keeps: the window never exceeds the capacity
C11_WindowWithinCapacity == logical_len <= capacity

\* ---- C12
\* C12: start(n) issued while the session is running leaves the window, and
\* with it the buffer_seconds that status reports, as it was, whatever n is:
\* no step taken while recording is set changes logical_len.
C12_StartWhileRunningKeepsWindow ==
    [][recording =>
         /\ logical_len' = logical_len
         /\ system_audio_status'.buffer_seconds = system_audio_status.buffer_seconds]_vars

\* a start asking for a different window is in flight while a session runs
C12_Witness ==
    /\ cmd[1].pc = "start_check"
    /\ recording
    /\ capture_handle # None
    /\ AliveWorkers # {}
    /\ set_buffer_seconds(cmd[1].arg) # logical_len

\* ---- C13
\* C13 (as stated): whenever status reports recording and the worker is the
\* fallback silence thread, the status result names the active backend variant.
C13_StatusNamesBackend ==
    (system_audio_status.recording /\ AliveWorkers # {})
        => "backend" \in DOMAIN system_audio_status

Quiescent == ~recording /\ NoThread /\ capture_handle = None

\* C15: a stop issued while idle changes nothing: recording stays false, the
\* window, the buffer, the write cursor and the count of samples written are
\* unchanged, and no thread is created or joined.
C15_StopWhileIdleIsNoOp ==
    [][\A c \in Ctx :
         (Quiescent /\ (cmd[c].pc \in StopPcs \/ cmd'[c].pc \in StopPcs))
           => UNCHANGED <<logical_len, buffer, write_index, totalWritten,
                          recording, capture_handle, workers, nextWorker>>]_vars

\* a stop has returned after a session that left the cursor inside the buffer
C15_Witness ==
    /\ HostIdle
    /\ Quiescent
    /\ Len(hist) = 2 /\ hist[1] = "stop_ok" /\ hist[2] = "stop_ok"
    /\ write_index # 0
    /\ nextWorker = 2

\* ---- C16
\* The controller state the program is in, read off the command in progress,
\* the recording flag and the capture threads.
ControllerState ==
    IF cmd[1].pc \in {"start_set", "start_flag", "start_capture", "start_store"}
    THEN "Starting"
    ELSE IF cmd[1].pc \in StopPcs /\ (recording \/ ~NoThread)
    THEN "Stopping"
    ELSE IF recording THEN "Running" ELSE "Idle"

ControllerTransitions ==
    {<<"Idle", "Starting">>, <<"Starting", "Running">>, <<"Starting", "Idle">>,
     <<"Running", "Stopping">>, <<"Stopping", "Idle">>}

PushedSinceCleared(c) == totalWritten - cmd[c].pre[1]

\* C18: the capture thread looks at the recording flag once before each chunk:
\* after stop has cleared the flag the thread pushes at most one further chunk
\* and exits, and under fair scheduling every stop that was invoked returns.
C18_StopEndsWithinOneBlock ==
    /\ [](\A c \in Ctx :
            cmd[c].pc \in {"stop_take", "stop_join"} => PushedSinceCleared(c) <= Chunk)
    /\ [][\A w \in WorkerIds :
            (workers[w].pc = "check" /\ ~recording /\ workers'[w] # workers[w])
               => workers'[w].pc = "done"]_vars
    /\ (cmd[1].pc \in StopPcs) ~> (cmd[1].pc = "idle" /\ NoThread)

\* a stop is waiting for a thread that pushed a whole chunk after the flag was cleared
C18_Witness ==
    /\ cmd[1].pc = "stop_join"
    /\ PushedSinceCleared(1) = Chunk
    /\ workers[cmd[1].h].pc = "done"

\* ---- C19
\* C19: every encoded sample is a 16-bit value of the sample's own sign, and
\* it is 32767 for every sample >= 1.0 (1.5 among them) and -32768 for every
\* sample <= -1.0 (-1.5 among them): out-of-range samples saturate, none wraps.
C19_ClampEncode ==
    encOut.made =>
        \A i \in 1 .. Len(encIn.audioData) :
            LET k == encIn.audioData[i]
                v == encOut.pcm[i]
            IN  /\ v \in (0 - 32768) .. 32767
                /\ k >= SampleDen => v = 32767
                /\ k <= 0 - SampleDen => v = 0 - 32768
                /\ k > 0 => v > 0
                /\ k < 0 => v < 0
                /\ k = 0 => v = 0

\* an input holding a sample of at least 1.5 and one of at most -1.5 was encoded
C19_Witness ==
    /\ encOut.made
    /\ \E i, j \in 1 .. Len(encIn.audioData) :
         /\ 2 * encIn.audioData[i] >= 3 * SampleDen
         /\ 2 * encIn.audioData[j] <= 0 - 3 * SampleDen
         /\ encOut.pcm[i] = 32767
         /\ encOut.pcm[j] = 0 - 32768

\* ---- C20
\* the Blob is a header-only container: 44 bytes, no data, a RIFF size that
\* counts the bytes after the size field, and a consistent fmt chunk
HeaderOnlyContainer(blob) ==
    /\ blob.byteLength = 44
    /\ blob.dataSize = 0
    /\ blob.pcm = <<>>
    /\ blob.riffTag = "RIFF"
    /\ blob.riffSize = blob.byteLength - 8
    /\ blob.fmtSize = 16
    /\ blob.audioFormat = 1
    /\ blob.blockAlign * 8 = blob.channels * blob.bitsPerSample
    /\ blob.byteRate = blob.sampleRate * blob.blockAlign

\* C20 (as stated): encoding an empty sample sequence returns a Blob that is
\* a valid header-only container: 44 bytes, data length 0, and a RIFF size
\* field consistent with the total length.
C20_EmptyEncodeIsValidContainer ==
    (encOut.made /\ encIn.audioData = <<>>) => HeaderOnlyContainer(encOut)

\* what the program keeps of C20: the same for the format "wav"
C20_EmptyWavEncode ==
    (encOut.made /\ encIn.audioData = <<>> /\ encIn.format = "wav")
        => (HeaderOnlyContainer(encOut) /\ encOut.formType = "WAVE")

\* ---- C21
\* C21 (as stated): the header's sample rate, channel count, byte rate and
\* block align are the ones that follow from the sample rate and the channel
\* count the audio was captured with.
C21_HeaderFollowsCapture ==
    encOut.made =>
        /\ encOut.sampleRate = encIn.sampleRate
        /\ encOut.channels = encIn.channels
        /\ encOut.blockAlign = encIn.channels * 2
        /\ encOut.byteRate = encIn.sampleRate * encIn.channels * 2

\* what the program keeps of C21: the sample rate is the one passed in, and
\* the other three fields are those of one 16-bit channel
C21_HeaderIsMono ==
    encOut.made =>
        /\ encOut.sampleRate = encIn.sampleRate
        /\ encOut.channels = 1
        /\ encOut.blockAlign = 2
        /\ encOut.byteRate = encIn.sampleRate * 2

C30_RecordingIffWorker ==
    HostIdle =>
        /\ recording <=> (capture_handle # None /\ Alive(capture_handle))
        /\ recording => AliveWorkers # {}
        /\ ~recording => AliveWorkers = {}

\* ---- C23
\* C23 (as stated): once the host's {enabled, bufferSeconds} record has stopped
\* changing and every start and stop it invoked has completed (none of the
\* remembered starts failed), the daemon on a supported platform is recording
\* exactly when enabled is true.
C23_RecordingFollowsEnabled ==
    (/\ HostIdle
     /\ ~appContext.effectPending
     /\ macos
     /\ \A i \in 1 .. Len(hist) : hist[i] # "start_err")
        => (recording <=> appContext.enabled)

\* ---- C24
\* C24: attachedFiles never grows beyond MAX_FILES: a clip that arrives when
\* the list is full leaves the state as it is, any other clip appends exactly
\* one file, and a failed system_audio_get_recent_base64 appends nothing and
\* sets the error.
C24_AttachNeverExceedsMax ==
    /\ [](Len(completion.attachedFiles) <= MAX_FILES)
    /\ [][LET before == completion.attachedFiles
              after == completion'.attachedFiles
          IN  /\ (completion'.last = "ok" /\ Len(before) >= MAX_FILES)
                   => (after = before /\ completion'.error = completion.error)
              /\ (completion'.last = "ok" /\ Len(before) < MAX_FILES)
                   => (/\ Len(after) = Len(before) + 1
                       /\ SubSeq(after, 1, Len(before)) = before
                       /\ after[Len(after)].type = "audio/wav")
              /\ completion'.last = "err"
                   => (after = before /\ completion'.error)]_vars

\* the list is full, a clip arrived after that, and a request failed
C24_Witness ==
    /\ Len(completion.attachedFiles) = MAX_FILES
    /\ completion.succeeded > MAX_FILES
    /\ completion.error
    /\ completion.pending = 0

\* ---- C25
AllDigits(t) == t # <<>> /\ \A i \in 1 .. Len(t) : IsDigit(t[i])
NoDigit(t) == \A i \in 1 .. Len(t) : ~IsDigit(t[i])
RECURSIVE Decimal(_)
Decimal(t) == IF t = <<>> THEN 0 ELSE Decimal(SubSeq(t, 1, Len(t) - 1)) * 10
                                       + DigitValue(t[Len(t)])

\* C25: whatever text the input holds when it loses focus, the value passed to
\* handleSystemAudioDaemonBufferSecondsChange is an integer in 5 .. 300, it is
\* the typed number clamped when the text is a number, it is 30 when the text
\* holds no number, and the draft then shown is that same value.
C25_BlurPassesClampedValue ==
    [][settings'.last = "blur" =>
         LET typed == settings.bufferInput
             v == settings'.passed[1]
         IN  /\ Len(settings'.passed) = 1
             /\ v \in 5 .. 300
             /\ AllDigits(typed) =>
                  v = (IF Decimal(typed) < 5 THEN 5
                       ELSE IF Decimal(typed) > 300 THEN 300 ELSE Decimal(typed))
             /\ NoDigit(typed) => v = 30
             /\ AllDigits(settings'.bufferInput)
             /\ Decimal(settings'.bufferInput) = v]_vars

\* texts below, inside, above the range and without a number have been handled
C25_Witness ==
    /\ settings.last = "blur"
    /\ settings.passed = <<300>>
    /\ settings.bufferInput = <<"3", "0", "0">>

\* ---- C26
\* C26: the screenshot callback is invoked for a trigger-screenshot event only
\* if at least DEBOUNCE_MS have passed since the last accepted event, so any
\* two invocations are at least DEBOUNCE_MS apart, and a dropped event leaves
\* lastScreenshotEventTime as it was.
C26_ScreenshotDebounce ==
    /\ [](\A i, j \in 1 .. Len(screenshot.invoked) :
            i < j => screenshot.invoked[j] - screenshot.invoked[i] >= DEBOUNCE_MS)
    /\ [][/\ screenshot'.invoked # screenshot.invoked
             => /\ screenshot.now - screenshot.lastScreenshotEventTime >= DEBOUNCE_MS
                /\ screenshot'.lastScreenshotEventTime = screenshot.now
          /\ screenshot'.outcome = "dropped"
             => /\ screenshot'.lastScreenshotEventTime = screenshot.lastScreenshotEventTime
                /\ screenshot'.invoked = screenshot.invoked]_vars

\* two invocations exactly DEBOUNCE_MS apart, and an event dropped after them
C26_Witness ==
    /\ Len(screenshot.invoked) = 2
    /\ screenshot.invoked[2] - screenshot.invoked[1] = DEBOUNCE_MS
    /\ screenshot.outcome = "dropped"
    /\ screenshot.now > screenshot.lastScreenshotEventTime

\* ---- C27
SetupsAtRest == \A r \in Runs : listeners.runs[r].pc # "await"
RegisteredFor(k) == {l \in listeners.registered : l[2] = k}

\* C27 (as stated): once the setupEventListeners runs have finished, however
\* they interleaved, at most one listener per event type is registered, and
\* every listener still registered is the one stored in globalEventListeners.
C27_ListenerSingleton ==
    SetupsAtRest =>
        \A k \in EventIx :
            /\ Cardinality(RegisteredFor(k)) <= 1
            /\ \A l \in RegisteredFor(k) : listeners.globalEventListeners[k] = l

\* ---- C28
\* the mounted components that registered actionId a
Registrants(a) ==
    {c \in Components : /\ shortcuts.components[c].mounted
                        /\ a \in shortcuts.components[c].customShortcuts}

\* C28 (as stated): a custom-shortcut-triggered event for an actionId finds a
\* callback exactly when some mounted component registered that actionId, and
\* the callback is one of a mounted component: unmounting a component removes
\* its callbacks and never those of a component that is still mounted.
C28_CallbackIffRegistered ==
    \A a \in ActionIds :
        LET callback == shortcuts.globalCustomShortcutCallbacks[a]
        IN  /\ callback # NoCallback <=> Registrants(a) # {}
            /\ callback # NoCallback => callback \in Registrants(a)

\* what the program keeps of C28: a callback found belongs to a mounted
\* component that registered the actionId
C28_NoCallbackAfterUnmount ==
    \A a \in ActionIds :
        shortcuts.globalCustomShortcutCallbacks[a] # NoCallback
            => shortcuts.globalCustomShortcutCallbacks[a] \in Registrants(a)

\* ---- C29
ResizeAtRest == windowResize.timers = {} /\ windowResize.inFlight = {}

\* C29 (as stated): after any calls of resizeWindow, once every timer has
\* fired and every set_window_height has returned, the window has the height
\* of the most recent call; and at most one resize timer is pending at any time.
C29_ResizeConverges ==
    /\ Cardinality(windowResize.timers) <= 1
    /\ (ResizeAtRest /\ windowResize.calls > 0)
         => windowResize.height = windowResize.lastCall

\* what the program keeps of C29: at most one resize timer is pending
C29_OneTimerPending == Cardinality(windowResize.timers) <= 1

====
